---------------------------- MODULE Spec2Model ----------------------------
(***************************************************************************)
(* A model of manage-venv.py: the pipeline main() runs (aggregate the      *)
(* sub-manifests, check the root manifest, provision the environment,      *)
(* install, pin, check for upgrades) and the text functions it is built    *)
(* from.  Text is a sequence of one-character strings; a file is the text   *)
(* Python's text-mode read() returns for it.                               *)
(***************************************************************************)
EXTENDS Integers, Sequences, FiniteSets, TLC

VARIABLES
    pc,          \* the statement of main() that runs next
    subs,        \* the sub-manifests on disk: directory name |-> text
    rootExists,  \* whether ./requirements.txt exists
    rootFile,    \* the text of ./requirements.txt
    venvDir,     \* whether ./venv is a directory
    venvPy,      \* whether ./venv/bin/python is a file
    envFreeze,   \* what `pip freeze` prints in the environment at present
    cmds,        \* the external invocations made so far, with their outcomes
    inputs,      \* the answers read from standard input so far
    exitStatus,  \* <<>> while the process runs, <<status>> once it has ended
    aggregated,  \* the text source_and_combine_requirements wrote
    pinLog       \* one record per completed run of pin_dependencies

vars == <<pc, subs, rootExists, rootFile, venvDir, venvPy, envFreeze, cmds,
          inputs, exitStatus, aggregated, pinLog>>

-----------------------------------------------------------------------------
(* Bounds of the model. *)

\* The most sub-manifest directories present at once.
MaxDirs == 2
\* The most lines of a manifest handed to the pinning stage on its own.
MaxLines == 2
\* The most data rows in a list of outdated packages.
MaxRows == 2

-----------------------------------------------------------------------------
(* Characters and Python's str methods. *)

NL == "\n"

\* The characters of the class \s (str.strip's default) that the model uses.
Whitespace == {" ", NL}

\* The characters of the class [a-zA-Z0-9\-_] that the model uses.
NameChars == {"a", "b", "c", "e", "s", "w", "x", "y", "A", "B", "L", "P", "T", "V", "Y",
              "1", "2", "3", "-", "_"}

\* The characters of the class [a-zA-Z0-9\-_,] that the model uses.
ExtrasChars == NameChars \cup {","}

\* str.lower() on one character; the capitals the model uses are A, B and Y.
LowerChar(c) == CASE c = "A" -> "a" [] c = "B" -> "b" [] c = "Y" -> "y" [] OTHER -> c

\* str.lower()
Lower(s) == [i \in 1..Len(s) |-> LowerChar(s[i])]

\* The first index at or after i whose character is outside S, Len(s)+1 if none.
RunEnd(s, i, S) ==
    CHOOSE j \in i..(Len(s) + 1) :
        /\ (j = Len(s) + 1 \/ s[j] \notin S)
        /\ \A k \in i..(j - 1) : s[k] \in S

\* The last index whose character is outside S, 0 if none.
LastOutside(s, S) ==
    IF \E i \in 1..Len(s) : s[i] \notin S
    THEN CHOOSE i \in 1..Len(s) :
             s[i] \notin S /\ \A k \in (i + 1)..Len(s) : s[k] \in S
    ELSE 0

\* str.strip()
Strip(s) == SubSeq(s, RunEnd(s, 1, Whitespace), LastOutside(s, Whitespace))

\* c in s
HasChar(s, c) == \E i \in 1..Len(s) : s[i] = c

\* The index of the first c in s (s contains c).
IndexOf(s, c) == CHOOSE i \in 1..Len(s) : s[i] = c /\ \A k \in 1..(i - 1) : s[k] # c

\* "==" in s
HasEqEq(s) == \E i \in 1..(Len(s) - 1) : s[i] = "=" /\ s[i + 1] = "="

\* s.split("==")[0]
BeforeEqEq(s) ==
    IF HasEqEq(s)
    THEN LET i == CHOOSE i \in 1..(Len(s) - 1) :
                      /\ s[i] = "=" /\ s[i + 1] = "="
                      /\ \A k \in 1..(i - 1) : ~(s[k] = "=" /\ s[k + 1] = "=")
         IN  SubSeq(s, 1, i - 1)
    ELSE s

\* s.split(c)[0]
BeforeChar(s, c) == IF HasChar(s, c) THEN SubSeq(s, 1, IndexOf(s, c) - 1) ELSE s

\* s.split(c, 1)[1] (s contains c)
AfterChar(s, c) == SubSeq(s, IndexOf(s, c) + 1, Len(s))

\* s.split(c)
RECURSIVE SplitOn(_, _)
SplitOn(s, c) ==
    IF HasChar(s, c)
    THEN <<BeforeChar(s, c)>> \o SplitOn(AfterChar(s, c), c)
    ELSE <<s>>

\* s.split(): the maximal runs of non-whitespace characters
RECURSIVE SplitWs(_)
SplitWs(s) ==
    LET i == RunEnd(s, 1, Whitespace)
        j == CHOOSE j \in i..(Len(s) + 1) :
                 /\ (j = Len(s) + 1 \/ s[j] \in Whitespace)
                 /\ \A k \in i..(j - 1) : s[k] \notin Whitespace
    IN  IF i > Len(s) THEN <<>>
        ELSE <<SubSeq(s, i, j - 1)>> \o SplitWs(SubSeq(s, j, Len(s)))

\* f.readlines(): the lines of a text, each with its newline
RECURSIVE ReadLines(_)
ReadLines(text) ==
    IF text = <<>> THEN <<>>
    ELSE IF HasChar(text, NL)
         THEN <<SubSeq(text, 1, IndexOf(text, NL))>> \o ReadLines(AfterChar(text, NL))
         ELSE <<text>>

\* f.writelines(lines): the lines one after the other, nothing added
RECURSIVE WriteLines(_)
WriteLines(lines) ==
    IF lines = <<>> THEN <<>> ELSE Head(lines) \o WriteLines(Tail(lines))

\* sep.join(texts) with the separator "\n"
RECURSIVE JoinNL(_)
JoinNL(texts) ==
    IF texts = <<>> THEN <<>>
    ELSE IF Len(texts) = 1 THEN texts[1]
         ELSE texts[1] \o <<NL>> \o JoinNL(Tail(texts))

-----------------------------------------------------------------------------
(* PACKAGE_REGEX and the names taken from a line. *)

\* PACKAGE_REGEX.match(line): whether it matches, and group(1).  After the
\* leading whitespace comes a run of name characters, then, if present, a
\* bracketed run of extras characters.
Match(line) ==
    LET i == RunEnd(line, 1, Whitespace)
        j == RunEnd(line, i, NameChars)
        k == RunEnd(line, j + 1, ExtrasChars)
        extras == /\ j <= Len(line) /\ line[j] = "["
                  /\ k > j + 1
                  /\ k <= Len(line) /\ line[k] = "]"
    IN  IF j = i THEN [ok |-> FALSE, group1 |-> <<>>]
        ELSE [ok |-> TRUE,
              group1 |-> SubSeq(line, i, IF extras THEN k ELSE j - 1)]

\* match.group(1).lower().split('[')[0]
PackageName(group1) == BeforeChar(Lower(group1), "[")

\* The test of lines 104 and 131: a package line without "==".
Unpinned(line) == Match(line).ok /\ ~HasEqEq(line)

\* needs_pinning, were line 104 to leave out its test for "==".
NeedsPinningAnyPackage(lines) == \E i \in 1..Len(lines) : Match(lines[i]).ok

\* needs_pinning after the loop of lines 102-106
NeedsPinning(lines) == \E i \in 1..Len(lines) : Unpinned(lines[i])

\* installed_packages: the dict comprehension over the lines of pip freeze;
\* of two lines with the same key the later one stays.
InstalledPackages(stdout) ==
    LET lines == SplitOn(Strip(stdout), NL)
        spec(i) == Strip(lines[i])
        name(i) == BeforeEqEq(spec(i))
        kept == {i \in 1..Len(lines) : HasEqEq(spec(i)) /\ name(i) # <<>>}
        last(key) == CHOOSE i \in kept :
                        /\ Lower(name(i)) = key
                        /\ \A k \in kept : Lower(name(k)) = key => k <= i
    IN  [key \in {Lower(name(i)) : i \in kept} |-> spec(last(key))]

\* new_line, were the inline comment dropped instead of re-attached.
NewLineNoComment(line, pinned_version) == pinned_version \o <<NL>>

\* new_line, were line 138 to put parts[0] where pinned_version belongs.
NewLineKeepsRequirement(line, pinned_version) ==
    IF HasChar(line, "#")
    THEN BeforeChar(line, "#") \o <<" ", " ", "#", " ">> \o Strip(AfterChar(line, "#")) \o <<NL>>
    ELSE pinned_version \o <<NL>>

\* new_line of lines 136-140: the pinned specifier, with the line's inline
\* comment after it if the line has one.
NewLine(line, pinned_version) ==
    IF HasChar(line, "#")
    THEN pinned_version \o <<" ", " ", "#", " ">> \o Strip(AfterChar(line, "#")) \o <<NL>>
    ELSE pinned_version \o <<NL>>

\* The pass, were line 131 to leave out its test for "==".
PinLineRepinning(line, installed_packages) ==
    LET line_stripped == Strip(line)
        match == Match(line)
    IN  IF line_stripped = <<>> \/ line_stripped[1] = "#" THEN line
        ELSE IF match.ok /\ PackageName(match.group1) \in DOMAIN installed_packages
             THEN NewLine(line, installed_packages[PackageName(match.group1)])
             ELSE line

\* The pass, were the branch of lines 143-145 to append nothing.
PinLineDropsUnknown(line, installed_packages) ==
    LET line_stripped == Strip(line)
        match == Match(line)
    IN  IF line_stripped = <<>> \/ line_stripped[1] = "#" THEN line
        ELSE IF match.ok /\ ~HasEqEq(line)
             THEN IF PackageName(match.group1) \in DOMAIN installed_packages
                  THEN NewLine(line, installed_packages[PackageName(match.group1)])
                  ELSE <<>>
             ELSE line

\* One pass of the loop of lines 123-148: what is appended to new_lines.
PinLine(line, installed_packages) ==
    LET line_stripped == Strip(line)
        match == Match(line)
    IN  IF line_stripped = <<>> \/ line_stripped[1] = "#" THEN line
        ELSE IF match.ok /\ ~HasEqEq(line)
             THEN LET package_name == PackageName(match.group1)
                  IN  IF package_name \in DOMAIN installed_packages
                      THEN NewLine(line, installed_packages[package_name])
                      ELSE line
             ELSE line

\* new_lines after the loop
NewLines(lines, installed_packages) ==
    [i \in 1..Len(lines) |-> PinLine(lines[i], installed_packages)]


\* The manifest, were it opened for writing before the freeze invocation.
ManifestTruncatedFirst(text, outcome_failed, stdout) ==
    IF outcome_failed THEN <<>>
    ELSE WriteLines(NewLines(ReadLines(text), InstalledPackages(stdout)))

\* f.write of line 152: the text of the manifest when pin_dependencies has
\* run past its needs_pinning test: untouched if the freeze invocation made
\* the process exit, new_lines written out otherwise.
ManifestAfterPin(text, outcome_failed, stdout) ==
    IF outcome_failed THEN text
    ELSE WriteLines(NewLines(ReadLines(text), InstalledPackages(stdout)))

-----------------------------------------------------------------------------
(* The upgrade checker's text functions. *)

\* requirements_packages after the loop of lines 172-177
RequirementsPackages(lines) ==
    {PackageName(Match(lines[i]).group1) : i \in {k \in 1..Len(lines) : Match(lines[k]).ok}}

\* targeted_upgrades, were line 202 to compare the name without lower().
TargetedUpgradesCaseSensitive(outdated_lines, requirements_packages) ==
    LET Row(line) == SplitWs(line)
        Takes(line) == /\ Len(Row(line)) = 4
                       /\ Row(line)[1] \in requirements_packages
        rows == SelectSeq(SubSeq(outdated_lines, 3, Len(outdated_lines)), Takes)
    IN  [i \in 1..Len(rows) |-> <<Row(rows[i])[1], Row(rows[i])[2], Row(rows[i])[3]>>]

\* targeted_upgrades after the loop of lines 198-206: the rows from the third
\* line on that split into four fields and whose lowercased first field is
\* a tracked name, each as (package, current_v, latest_v).
TargetedUpgrades(outdated_lines, requirements_packages) ==
    LET Row(line) == SplitWs(line)
        Takes(line) == /\ Len(Row(line)) = 4
                       /\ Lower(Row(line)[1]) \in requirements_packages
        rows == SelectSeq(SubSeq(outdated_lines, 3, Len(outdated_lines)), Takes)
    IN  [i \in 1..Len(rows) |-> <<Row(rows[i])[1], Row(rows[i])[2], Row(rows[i])[3]>>]

\* packages_to_upgrade of line 222
PackagesToUpgrade(targeted_upgrades) ==
    [i \in 1..Len(targeted_upgrades) |-> targeted_upgrades[i][1]]

\* answer of lines 216-219: the line read, lowercased and stripped, or 'n' at
\* the end of the input stream.
Answer(in) == IF in.eof THEN <<"n">> ELSE Strip(Lower(in.text))

-----------------------------------------------------------------------------
(* The aggregator's functions. *)

\* The code point of a character of a directory name.
Code(c) == CASE c = "-" -> 45 [] c = "B" -> 66 [] c = "a" -> 97 [] c = "b" -> 98

\* The order sorted() puts two paths */requirements.txt in: pathlib compares
\* paths part by part, so the directory names decide, compared as strings.
RECURSIVE NameLess(_, _)
NameLess(d, e) ==
    IF e = <<>> THEN FALSE
    ELSE IF d = <<>> THEN TRUE
         ELSE IF d[1] # e[1] THEN Code(d[1]) < Code(e[1])
              ELSE NameLess(Tail(d), Tail(e))

\* found_files, were the list sorted in descending order.
RECURSIVE FoundFilesDescending(_)
FoundFilesDescending(dirs) ==
    IF dirs = {} THEN <<>>
    ELSE LET greatest == CHOOSE d \in dirs : \A e \in dirs \ {d} : NameLess(e, d)
         IN  <<greatest>> \o FoundFilesDescending(dirs \ {greatest})

\* found_files of line 63: the directories that hold a sub-manifest, sorted.
RECURSIVE FoundFiles(_)
FoundFiles(dirs) ==
    IF dirs = {} THEN <<>>
    ELSE LET least == CHOOSE d \in dirs : \A e \in dirs \ {d} : NameLess(d, e)
         IN  <<least>> \o FoundFiles(dirs \ {least})

\* The text line 68 writes to the root manifest.
Combined(files) == JoinNL([i \in 1..Len(FoundFiles(DOMAIN files)) |-> files[FoundFiles(DOMAIN files)[i]]])

-----------------------------------------------------------------------------
(* run_command *)

\* How an external invocation can end: it returns, the executable is missing
\* (FileNotFoundError), or it exits non-zero (CalledProcessError).
Outcomes == {"ok", "notfound", "nonzero"}

\* The outcomes answered with sys_exit(1), were run to be called without
\* check=True: a non-zero exit would raise nothing.
FailedNotFoundOnly(outcome) == outcome = "notfound"

\* The outcomes run_command answers with sys_exit(1) (lines 43-52).
Failed(outcome) == outcome \in {"notfound", "nonzero"}

\* One entry of the log of invocations.
Cmd(c, args, outcome, stdout) ==
    [cmd |-> c, args |-> args, outcome |-> outcome, stdout |-> stdout]

\* sys_exit(1): the process ends with status 1.
Exit1 == pc' = "ended" /\ exitStatus' = <<1>>

\* main() returns: the process ends with status 0.
Exit0 == pc' = "ended" /\ exitStatus' = <<0>>

-----------------------------------------------------------------------------
(* The inputs the model draws from. *)

\* Directory names a sub-manifest may sit in: "B", "a", "a-b".
DirNames == {<<"B">>, <<"a">>, <<"a", "-", "b">>}

\* Texts of a sub-manifest: "a\n", "B==1" (no final newline), "" (empty),
\* "A[x] #c\n".
FileSamples ==
    { <<"a", NL>>,
      <<"B", "=", "=", "1">>,
      <<>>,
      <<"A", "[", "x", "]", " ", "#", "c", NL>> }

\* What the root manifest may hold before the run, if it exists.
OldRootSamples == { <<>>, <<"c", NL>> }

\* Outputs of pip freeze: "a==1\n"; "A==1\nb==2\n"; "" (nothing installed);
\* "a==1\n ==3\n-e x\na==2 \n" (a key twice, a line with no name, a line
\* without "==").
FreezeOutputs ==
    { <<"a", "=", "=", "1", NL>>,
      <<"A", "=", "=", "1", NL, "b", "=", "=", "2", NL>>,
      <<>>,
      <<"a", "=", "=", "1", NL, " ", "=", "=", "3", NL, "-", "e", " ", "x", NL,
        "a", "=", "=", "2", " ", NL>> }

\* Lines of a manifest handed to the pinning stage on its own.
LineSamples ==
    { <<"a", NL>>,                                   \* a name
      <<"A", NL>>,                                   \* in capitals
      <<"a", "[", "x", "]", NL>>,                    \* with extras
      <<" ", "a", " ", " ", "#", " ", "c", NL>>,     \* indented, with a comment
      <<"a", " ", "#", "c", " ", NL>>,               \* comment close to the '#'
      <<"a", "=", "=", "2", NL>>,                    \* pinned
      <<"a", "=", "=", "2", " ", "#", "c", NL>>,     \* pinned, with a comment
      <<"#", " ", "a", NL>>,                         \* a full-line comment
      <<NL>>,                                        \* blank
      <<" ", NL>>,                                   \* whitespace only
      <<"b", NL>>,                                   \* another name
      <<"b", " ", "#", " ", "c", NL>>,               \* another name, commented
      <<"a", ">", "1", NL>>,                         \* a constraint without "=="
      <<"a", " ", "#", "=", "=", NL>>,               \* "==" only in the comment
      <<"-", "e", " ", "x", NL>>,                    \* an editable install
      <<"/", "x", NL>> }                             \* no name at the start

\* Sequences of at most n elements of S.
SeqsUpTo(S, n) == UNION {[1..k -> S] : k \in 0..n}

\* Manifests for the pinning stage: up to MaxLines lines, the last one with or
\* without its newline.
PinManifests ==
    LET whole == {WriteLines(ls) : ls \in SeqsUpTo(LineSamples, MaxLines)}
    IN  whole \cup {SubSeq(t, 1, Len(t) - 1) : t \in whole \ {<<>>}}

\* Rows of pip list --outdated: "A 1 2 w", "b 1 2 w", and one of three
\* fields, "a 1 2".
RowSamples ==
    { <<"A", " ", "1", " ", "2", " ", "w">>,
      <<"b", " ", "1", " ", "2", " ", "w">>,
      <<"a", " ", "1", " ", "2">> }

\* The two header lines of pip list --outdated.
Header == <<"P", " ", "V", " ", "L", " ", "T", NL, "-", " ", "-", " ", "-", " ", "-", NL>>

\* Outputs of pip list --outdated: nothing at all, or the header and up to
\* MaxRows rows.
OutdatedOutputs ==
    {<<>>} \cup
    {Header \o WriteLines([i \in 1..Len(rows) |-> rows[i] \o <<NL>>]) :
        rows \in SeqsUpTo(RowSamples, MaxRows)}

\* What input() gives: the end of the stream, or a line: "y", " Y ", "yes".
Answers ==
    { [eof |-> TRUE, text |-> <<>>],
      [eof |-> FALSE, text |-> <<"y">>],
      [eof |-> FALSE, text |-> <<" ", "Y", " ">>],
      [eof |-> FALSE, text |-> <<"y", "e", "s">>] }

-----------------------------------------------------------------------------
(* The pipeline. *)

Init ==
    /\ pc = "aggregate"
    /\ \E dirs \in SUBSET DirNames :
          /\ Cardinality(dirs) <= MaxDirs
          /\ subs \in [dirs -> FileSamples]
    /\ rootExists \in BOOLEAN
    /\ rootFile \in (IF rootExists THEN OldRootSamples ELSE {<<>>})
    /\ venvDir \in BOOLEAN
    /\ venvPy \in (IF venvDir THEN BOOLEAN ELSE {FALSE})
    /\ envFreeze = <<>>
    /\ cmds = <<>>
    /\ inputs = <<>>
    /\ exitStatus = <<>>
    /\ aggregated = <<>>
    /\ pinLog = <<>>

\* source_and_combine_requirements (lines 55-68): opening the root manifest
\* for writing creates or truncates it, then the joined text is written.
Aggregate ==
    /\ pc = "aggregate"
    /\ rootExists' = TRUE
    /\ rootFile' = Combined(subs)
    /\ aggregated' = Combined(subs)
    /\ pc' = "check"
    /\ UNCHANGED <<subs, venvDir, venvPy, envFreeze, cmds, inputs, exitStatus, pinLog>>

\* main, lines 236-240: without a root manifest the FileNotFoundError raised
\* ends the process with status 1.
CheckManifest ==
    /\ pc = "check"
    /\ IF ~rootExists THEN Exit1 ELSE pc' = "venv" /\ UNCHANGED exitStatus
    /\ UNCHANGED <<subs, rootExists, rootFile, venvDir, venvPy, envFreeze, cmds,
                   inputs, aggregated, pinLog>>

\* setup_virtual_environment (lines 71-83)
SetupVenv ==
    /\ pc = "venv"
    /\ IF ~venvDir \/ ~venvPy
       THEN \E r \in Outcomes :
               /\ cmds' = Append(cmds, Cmd("venv", <<>>, r, <<>>))
               /\ IF Failed(r)
                  THEN Exit1 /\ UNCHANGED <<venvDir, venvPy>>
                  ELSE /\ venvDir' = TRUE /\ venvPy' = TRUE
                       /\ pc' = "install" /\ UNCHANGED exitStatus
       ELSE pc' = "install" /\ UNCHANGED <<cmds, exitStatus, venvDir, venvPy>>
    /\ UNCHANGED <<subs, rootExists, rootFile, envFreeze, inputs, aggregated, pinLog>>

\* main, lines 246-248: pip install -r; what is installed afterwards is the
\* package manager's business.
Install ==
    /\ pc = "install"
    /\ \E r \in Outcomes :
          /\ cmds' = Append(cmds, Cmd("install", <<>>, r, <<>>))
          /\ IF Failed(r)
             THEN Exit1 /\ UNCHANGED envFreeze
             ELSE /\ envFreeze' \in FreezeOutputs
                  /\ pc' = "pin" /\ UNCHANGED exitStatus
    /\ UNCHANGED <<subs, rootExists, rootFile, venvDir, venvPy, inputs, aggregated, pinLog>>

\* pin_dependencies (lines 86-154), entered at `here` and returning to `next`.
PinDependencies(here, next) ==
    /\ pc = here
    /\ IF ~rootExists
       THEN pc' = next /\ UNCHANGED <<rootFile, cmds, exitStatus, pinLog>>
       ELSE IF ~NeedsPinning(ReadLines(rootFile))
            THEN /\ pc' = next
                 /\ pinLog' = Append(pinLog, [input |-> rootFile, output |-> rootFile,
                                              writes |-> 0])
                 /\ UNCHANGED <<rootFile, cmds, exitStatus>>
            ELSE \E r \in Outcomes :
                    /\ cmds' = Append(cmds, Cmd("freeze", <<>>, r, envFreeze))
                    /\ rootFile' = ManifestAfterPin(rootFile, Failed(r), envFreeze)
                    /\ IF Failed(r)
                       THEN Exit1 /\ UNCHANGED pinLog
                       ELSE /\ pinLog' = Append(pinLog, [input |-> rootFile,
                                                         output |-> rootFile',
                                                         writes |-> 1])
                            /\ pc' = next /\ UNCHANGED exitStatus
    /\ UNCHANGED <<subs, rootExists, venvDir, venvPy, envFreeze, inputs, aggregated>>

\* main, line 251
Pin == PinDependencies("pin", "upgrades")

\* check_for_upgrades (lines 157-228), after which main returns.  run_command
\* never lets a CalledProcessError out, so the handler of lines 185-189 does
\* not run.
CheckForUpgrades ==
    /\ pc = "upgrades"
    /\ IF ~rootExists
       THEN Exit0 /\ UNCHANGED <<cmds, inputs>>
       ELSE \E r \in Outcomes :
          IF Failed(r)
          THEN /\ cmds' = Append(cmds, Cmd("outdated", <<>>, r, <<>>))
               /\ Exit1 /\ UNCHANGED inputs
          ELSE \E stdout \in OutdatedOutputs :
             LET listed == Append(cmds, Cmd("outdated", <<>>, r, stdout))
                 outdated_lines == SplitOn(Strip(stdout), NL)
                 targeted_upgrades ==
                     TargetedUpgrades(outdated_lines,
                                      RequirementsPackages(ReadLines(rootFile)))
             IN  IF Len(outdated_lines) <= 2 \/ targeted_upgrades = <<>>
                 THEN cmds' = listed /\ Exit0 /\ UNCHANGED inputs
                 ELSE \E in \in Answers :
                    /\ inputs' = Append(inputs, in)
                    /\ IF Answer(in) = <<"y">>
                       THEN \E r2 \in Outcomes :
                               /\ cmds' = Append(listed,
                                      Cmd("upgrade", PackagesToUpgrade(targeted_upgrades),
                                          r2, <<>>))
                               /\ IF Failed(r2) THEN Exit1 ELSE Exit0
                       ELSE cmds' = listed /\ Exit0
    /\ UNCHANGED <<subs, rootExists, rootFile, venvDir, venvPy, envFreeze, aggregated, pinLog>>

Next == Aggregate \/ CheckManifest \/ SetupVenv \/ Install \/ Pin \/ CheckForUpgrades

Spec == Init /\ [][Next]_vars

-----------------------------------------------------------------------------
(* The pinning stage on its own, run twice over the same environment. *)

\* The state main is in when it reaches line 251, for any manifest the
\* aggregator can have written from one sub-manifest and any environment.
InitPin ==
    /\ pc = "pin"
    /\ rootFile \in PinManifests
    /\ subs = [d \in {<<"a">>} |-> rootFile]
    /\ aggregated = rootFile
    /\ rootExists = TRUE
    /\ venvDir = TRUE
    /\ venvPy = TRUE
    /\ envFreeze \in FreezeOutputs
    /\ cmds = <<Cmd("install", <<>>, "ok", <<>>)>>
    /\ inputs = <<>>
    /\ exitStatus = <<>>
    /\ pinLog = <<>>

\* pin_dependencies, run a first time
PinOnce == PinDependencies("pin", "pin again")

\* pin_dependencies, run again on the manifest the first run left
PinAgain == PinDependencies("pin again", "pinned")

NextPin == PinOnce \/ PinAgain

SpecPin == InitPin /\ [][NextPin]_vars

-----------------------------------------------------------------------------
(* The properties claimed of the program. *)

\* A dependency specifier that is not pinned: the name pattern matches the
\* line and the line holds no "==".
UnpinnedSpecifier(line) == Match(line).ok /\ ~HasEqEq(line)

\* The identity key of a specifier line: its name, lowercased, without extras.
KeyOf(line) == PackageName(Match(line).group1)

\* The lines a run of the pinning stage read and the lines it left.
LinesIn(n) == ReadLines(pinLog[n].input)
LinesOut(n) == ReadLines(pinLog[n].output)

\* The installed-package map of the environment.
Installed == InstalledPackages(envFreeze)

\* C1: every run of the pinning stage leaves a manifest with as many lines as
\* it read, and every line that is not an unpinned dependency specifier
\* (blank, full-line comment, holding "==", or not matched by the name
\* pattern) is the same text at the same index.
C1_OtherLinesKept ==
    \A n \in 1..Len(pinLog) :
        /\ Len(LinesOut(n)) = Len(LinesIn(n))
        /\ \A i \in 1..Len(LinesIn(n)) :
              ~UnpinnedSpecifier(LinesIn(n)[i]) => LinesOut(n)[i] = LinesIn(n)[i]

\* A run rewrote the manifest, changed it, and read a line holding "==".
C1_Witness ==
    \E n \in 1..Len(pinLog) :
        /\ pinLog[n].writes = 1
        /\ pinLog[n].output # pinLog[n].input
        /\ \E i \in 1..Len(LinesIn(n)) : HasEqEq(LinesIn(n)[i])

\* C2, as amended: an unpinned line whose key is installed becomes the
\* installed specifier (name==version, its name the key up to case), followed,
\* if the line held a '#', by two spaces, '#', one space and the text after
\* the line's first '#' with the whitespace at its two ends removed, and then
\* a newline.
C2_PinnedWithTrimmedComment ==
    \A n \in 1..Len(pinLog) : \A i \in 1..Len(LinesIn(n)) :
        LET line == LinesIn(n)[i]
        IN  (UnpinnedSpecifier(line) /\ KeyOf(line) \in DOMAIN Installed) =>
               /\ HasEqEq(Installed[KeyOf(line)])
               /\ Lower(BeforeEqEq(Installed[KeyOf(line)])) = KeyOf(line)
               /\ LinesOut(n)[i] =
                     Installed[KeyOf(line)]
                     \o (IF HasChar(line, "#")
                         THEN <<" ", " ", "#", " ">> \o Strip(AfterChar(line, "#"))
                         ELSE <<>>)
                     \o <<NL>>

\* A run pinned a line that carries an inline comment.
C2_Witness ==
    \E n \in 1..Len(pinLog) : \E i \in 1..Len(LinesIn(n)) :
        /\ UnpinnedSpecifier(LinesIn(n)[i])
        /\ KeyOf(LinesIn(n)[i]) \in DOMAIN Installed
        /\ HasChar(LinesIn(n)[i], "#")
        /\ pinLog[n].writes = 1

\* C2, as claimed: an unpinned line whose key is installed becomes the
\* installed specifier, and the text after the first '#' of the line read is,
\* character for character, the text after the '#' of the line left.
C2_CommentVerbatim ==
    \A n \in 1..Len(pinLog) : \A i \in 1..Len(LinesIn(n)) :
        LET line == LinesIn(n)[i]
            spec == Installed[KeyOf(line)]
        IN  (UnpinnedSpecifier(line) /\ KeyOf(line) \in DOMAIN Installed) =>
               /\ SubSeq(LinesOut(n)[i], 1, Len(spec)) = spec
               /\ HasChar(line, "#") =>
                     /\ HasChar(LinesOut(n)[i], "#")
                     /\ AfterChar(LinesOut(n)[i], "#") = AfterChar(line, "#")

\* C3, as claimed: with no sub-manifest found the root manifest is empty and
\* the run ends with status 1 at the manifest check, before anything is
\* invoked.
C3_NoSubManifestIsFatal ==
    (DOMAIN subs = {} /\ pc # "aggregate") =>
        /\ rootFile = <<>>
        /\ cmds = <<>>
        /\ pc \in {"check", "ended"}
        /\ pc = "ended" => exitStatus = <<1>>

ExpectedUpgrade(stdout, manifest) ==
    LET keys == {KeyOf(l) : l \in {ReadLines(manifest)[k] : k \in
                     {k \in 1..Len(ReadLines(manifest)) : Match(ReadLines(manifest)[k]).ok}}}
        lines == SplitOn(Strip(stdout), NL)
        Wanted(row) == Len(SplitWs(row)) = 4 /\ Lower(SplitWs(row)[1]) \in keys
        rows == SelectSeq(SubSeq(lines, 3, Len(lines)), Wanted)
    IN  [i \in 1..Len(rows) |-> SplitWs(rows[i])[1]]

\* C5: an upgrade is invoked only right after the outdated list was read and
\* the prompt was answered with a line that is "y" once lowercased and
\* stripped, never at the end of the input stream, and its arguments are the
\* names of the outdated rows that are in the manifest, all of them and no
\* other.
C5_UpgradeOnlyConfirmed ==
    \A i \in 1..Len(cmds) :
        cmds[i].cmd = "upgrade" =>
            /\ Len(inputs) = 1
            /\ ~inputs[1].eof
            /\ Strip(Lower(inputs[1].text)) = <<"y">>
            /\ i > 1
            /\ cmds[i - 1].cmd = "outdated"
            /\ cmds[i - 1].outcome = "ok"
            /\ cmds[i].args = ExpectedUpgrade(cmds[i - 1].stdout, rootFile)
            /\ cmds[i].args # <<>>

\* An upgrade was invoked on the answer " Y " for fewer names than the list
\* had rows, one of them spelt in capitals.
C5_Witness ==
    \E i \in 2..Len(cmds) :
        /\ cmds[i].cmd = "upgrade"
        /\ inputs[1].text = <<" ", "Y", " ">>
        /\ Len(cmds[i].args) = 1
        /\ cmds[i].args[1] = <<"A">>
        /\ Len(SplitOn(Strip(cmds[i - 1].stdout), NL)) = 4

\* C6: an unpinned line whose key is not installed is left as it was.
C6_UnknownLineKept ==
    \A n \in 1..Len(pinLog) : \A i \in 1..Len(LinesIn(n)) :
        (UnpinnedSpecifier(LinesIn(n)[i]) /\ KeyOf(LinesIn(n)[i]) \notin DOMAIN Installed)
            => /\ i <= Len(LinesOut(n))
               /\ LinesOut(n)[i] = LinesIn(n)[i]

\* A run rewrote the manifest, pinning one line and meeting another whose key
\* is not installed.
C6_Witness ==
    \E n \in 1..Len(pinLog) :
        /\ pinLog[n].writes = 1
        /\ pinLog[n].output # pinLog[n].input
        /\ \E i \in 1..Len(LinesIn(n)) :
              /\ UnpinnedSpecifier(LinesIn(n)[i])
              /\ KeyOf(LinesIn(n)[i]) \notin DOMAIN Installed

\* C7: the second run of the pinning stage reads what the first left and
\* leaves the same.
C7_Idempotent ==
    Len(pinLog) = 2 =>
        /\ pinLog[2].input = pinLog[1].output
        /\ pinLog[2].output = pinLog[1].output
        /\ rootFile = pinLog[1].output

\* The first run changed the manifest and the second froze and wrote again.
C7_Witness ==
    /\ Len(pinLog) = 2
    /\ pinLog[1].output # pinLog[1].input
    /\ pinLog[2].writes = 1

\* C8: what the aggregator wrote is the texts of the sub-manifests, in
\* ascending order of their paths, with one newline between one text and the
\* next; and it is all the root manifest holds until the pinning stage runs.
C8_RootIsSortedJoin ==
    pc # "aggregate" =>
        /\ \E order \in [1..Cardinality(DOMAIN subs) -> DOMAIN subs] :
              /\ \A i, j \in DOMAIN order : i < j => NameLess(order[i], order[j])
              /\ aggregated = JoinNL([i \in DOMAIN order |-> subs[order[i]]])
        /\ pc \in {"check", "venv", "install", "pin"} =>
              rootExists /\ rootFile = aggregated

\* The aggregator has just joined two sub-manifests with different texts,
\* the first one without a newline at its end.
C8_Witness ==
    /\ pc = "check"
    /\ DOMAIN subs = {<<"B">>, <<"a">>}
    /\ subs[<<"B">>] = <<"B", "=", "=", "1">>
    /\ subs[<<"a">>] = <<"a", NL>>
    /\ rootFile = <<"B", "=", "=", "1", NL, "a", NL>>

\* C9: if no line of the manifest is an unpinned specifier, nothing is asked
\* of pip freeze and the manifest is not written: it stays what the
\* aggregator wrote.
C9_AllPinnedIsNoOp ==
    (pc # "aggregate" /\ \A i \in 1..Len(ReadLines(aggregated)) :
                             ~UnpinnedSpecifier(ReadLines(aggregated)[i])) =>
        /\ \A i \in 1..Len(cmds) : cmds[i].cmd # "freeze"
        /\ \A n \in 1..Len(pinLog) : pinLog[n].writes = 0
        /\ rootFile = aggregated

\* The pinning stage has run on a manifest with a pinned line and none
\* unpinned.
C9_Witness ==
    /\ Len(pinLog) = 1
    /\ pinLog[1].input = <<"B", "=", "=", "1", NL, "B", "=", "=", "1">>
    /\ pc = "upgrades"

\* C10: the pinning stage writes the manifest at most once, and the manifest
\* differs from what the aggregator wrote only after a freeze invocation that
\* succeeded; after one that failed the process has ended with status 1, the
\* stage wrote nothing and the manifest is what the aggregator wrote.
C10_WriteOnlyAfterFreeze ==
    /\ Len(pinLog) <= 1
    /\ \A n \in 1..Len(pinLog) :
          /\ pinLog[n].writes <= 1
          /\ pinLog[n].writes = 1 =>
                \E i \in 1..Len(cmds) : cmds[i].cmd = "freeze" /\ cmds[i].outcome = "ok"
    /\ (pc # "aggregate" /\ rootFile # aggregated) =>
          \E i \in 1..Len(cmds) : cmds[i].cmd = "freeze" /\ cmds[i].outcome = "ok"
    /\ \A i \in 1..Len(cmds) :
          (cmds[i].cmd = "freeze" /\ cmds[i].outcome # "ok") =>
              /\ pc = "ended" /\ exitStatus = <<1>>
              /\ pinLog = <<>>
              /\ rootFile = aggregated

\* The freeze invocation failed on a manifest of two lines.
C10_Witness ==
    /\ cmds # <<>>
    /\ cmds[Len(cmds)].cmd = "freeze"
    /\ cmds[Len(cmds)].outcome = "nonzero"
    /\ Len(ReadLines(rootFile)) = 2

=============================================================================
